---- MODULE Spec2Model ----
(***************************************************************************)
(* A model of oiflib, the OIF pipeline library: format (format.py), the    *)
(* air three transform (air/three/transform.py) and validate               *)
(* (validate.py).  A DataFrame is a record [columns, data]: the column     *)
(* names in order and the rows in order, each row a sequence of cells      *)
(* aligned with the columns.  A call is modelled as a state machine: Init  *)
(* draws the function and its arguments, one action per function runs the  *)
(* call, and the caller may pipe the returned frame into a further call.   *)
(***************************************************************************)
EXTENDS Integers, Sequences, FiniteSets, TLC

VARIABLES
    fn,      \* the function being called
    df,      \* the DataFrame object passed to the call
    args,    \* the other arguments of the call
    out,     \* what the call returned or raised
    pc,      \* "call": about to run, "return": the call has ended
    depth,   \* how many returned frames the caller has piped onward
    io       \* the calls made so far to the world outside: prints, reads, requests, writes

vars == <<fn, df, args, out, pc, depth, io>>

(***************************************************************************)
(* Bounds of the model.                                                    *)
(***************************************************************************)
MaxFormatCols == 3   \* most columns of a frame given to format
MaxRepipe == 1       \* most times a format result is formatted again
MaxValueCols == 2    \* most value columns of a wide air three frame
MaxRows == 2         \* most rows of a wide air three frame
MaxPipes == 2        \* most times an air three result is piped into a further step
MaxValidateCols == 2 \* most columns of a frame given to validate
MaxExtractCols == 3  \* most columns of a sheet a workbook holds
MaxExtractRows == 1  \* most rows of a sheet a workbook holds

(***************************************************************************)
(* Python values.                                                          *)
(***************************************************************************)
None == "<None>"
NaN == "<NaN>"

\* Python truthiness of an Optional[str]: None and "" are falsy.
Truthy(x) == x # None /\ x # ""

Range(s) == {s[i] : i \in 1..Len(s)}

Indices(n) == [i \in 1..n |-> i]

\* The sequences without repetition over S of length at most n.
Arrangements(S, n) ==
    {p \in UNION {[1..k -> S] : k \in 0..n} : Cardinality(Range(p)) = Len(p)}

(***************************************************************************)
(* Results of a call: a returned frame, or a raised exception.             *)
(***************************************************************************)
\* failures: what a SchemaError reports, a sequence of <<column, check>>.
\* value: the string a call returns, or the key a KeyError names.
NoResult ==
    [ok |-> FALSE, err |-> "pending", columns |-> <<>>, data |-> <<>>, failures |-> <<>>, value |-> <<>>]
Return(t) ==
    [ok |-> TRUE, err |-> "", columns |-> t.columns, data |-> t.data, failures |-> <<>>, value |-> <<>>]
Raise(e) ==
    [ok |-> FALSE, err |-> e, columns |-> <<>>, data |-> <<>>, failures |-> <<>>, value |-> <<>>]
RaiseSchemaError(fs) ==
    [ok |-> FALSE, err |-> "SchemaError", columns |-> <<>>, data |-> <<>>, failures |-> fs, value |-> <<>>]
Frame(r) == [columns |-> r.columns, data |-> r.data]

\* The cells of the column at position i, in row order.
ColumnAt(t, i) == [r \in 1..Len(t.data) |-> t.data[r][i]]

(***************************************************************************)
(* pandas: df[list of labels] and DataFrame.rename(columns=mapping).       *)
(***************************************************************************)
\* The positions of the columns labelled k, ascending.
Positions(t, k) == SelectSeq(Indices(Len(t.columns)), LAMBDA i : t.columns[i] = k)

\* The positions df[keys] selects: for each key in turn, every column so labelled.
RECURSIVE SelectedPositions(_, _)
SelectedPositions(t, keys) ==
    IF keys = <<>> THEN <<>>
    ELSE Positions(t, Head(keys)) \o SelectedPositions(t, Tail(keys))

TakeColumns(t, idx) ==
    [columns |-> [j \in 1..Len(idx) |-> t.columns[idx[j]]],
     data |-> [r \in 1..Len(t.data) |-> [j \in 1..Len(idx) |-> t.data[r][idx[j]]]]]

\* A mutant of GetItem: a key that labels no column is skipped.
GetItemSkipMissing(t, keys) ==
    Return(TakeColumns(t, SelectedPositions(t, keys)))

\* df[keys]: KeyError when a key labels no column.
GetItem(t, keys) ==
    IF \E i \in 1..Len(keys) : keys[i] \notin Range(t.columns)
    THEN Raise("KeyError")
    ELSE Return(TakeColumns(t, SelectedPositions(t, keys)))

(***************************************************************************)
(* A Python dict literal: a sequence of <<key, value>> pairs.  A repeated  *)
(* key keeps the position of its first occurrence and the value of its     *)
(* last.                                                                   *)
(***************************************************************************)
DictKeys(d) == [i \in 1..Len(d) |-> d[i][1]]

DictSet(d, k, v) ==
    IF \E i \in 1..Len(d) : d[i][1] = k
    THEN [i \in 1..Len(d) |-> IF d[i][1] = k THEN <<k, v>> ELSE d[i]]
    ELSE Append(d, <<k, v>>)

RECURSIVE DictLiteral(_)
DictLiteral(pairs) ==
    IF pairs = <<>> THEN <<>>
    ELSE LET n == Len(pairs)
         IN DictSet(DictLiteral(SubSeq(pairs, 1, n - 1)), pairs[n][1], pairs[n][2])

DictGet(d, k, default) ==
    IF \E i \in 1..Len(d) : d[i][1] = k
    THEN d[CHOOSE i \in 1..Len(d) : d[i][1] = k][2]
    ELSE default

\* DataFrame.rename(columns=mapping): labels outside the mapping are kept.
Rename(t, mapping) ==
    [columns |-> [i \in 1..Len(t.columns) |-> DictGet(mapping, t.columns[i], t.columns[i])],
     data |-> t.data]

(***************************************************************************)
(* format.py                                                               *)
(***************************************************************************)
FormatColumns(year_column, value_column, disaggregation_column, disaggregation_column_new) ==
    IF ~Truthy(disaggregation_column)
    THEN DictLiteral(<< <<year_column, "Year">>, <<value_column, "Value">> >>)
    ELSE IF ~Truthy(disaggregation_column_new)
    THEN DictLiteral(<< <<year_column, "Year">>,
                        <<disaggregation_column, disaggregation_column>>,
                        <<value_column, "Value">> >>)
    ELSE DictLiteral(<< <<year_column, "Year">>,
                        <<disaggregation_column, disaggregation_column_new>>,
                        <<value_column, "Value">> >>)

format(t, year_column, value_column, disaggregation_column, disaggregation_column_new) ==
    LET columns == FormatColumns(year_column, value_column,
                                 disaggregation_column, disaggregation_column_new)
        selected == GetItem(t, DictKeys(columns))
    IN IF selected.ok THEN Return(Rename(Frame(selected), columns)) ELSE selected

(***************************************************************************)
(* The frames and arguments format is called with.                         *)
(***************************************************************************)
FormatNames == {"EmissionYear", "ShortPollName", "Index", "Value"}

\* The cells of each input column, distinct from column to column.
FormatCells ==
    [EmissionYear |-> <<"1990", "1991">>,
     ShortPollName |-> <<"NH3", "NOx">>,
     Index |-> <<"100", "97">>,
     Value |-> <<"1", "2">>]

FormatFrame(cols) ==
    [columns |-> cols,
     data |-> [r \in 1..Len(FormatCells.Index) |-> [i \in 1..Len(cols) |-> FormatCells[cols[i]][r]]]]

FormatInputs == {FormatFrame(cols) : cols \in Arrangements(FormatNames, MaxFormatCols)}

NoArgs ==
    [year_column |-> None, value_column |-> None,
     disaggregation_column |-> None, disaggregation_column_new |-> None]

FormatArgs ==
    [year_column : FormatNames, value_column : FormatNames,
     disaggregation_column : FormatNames \cup {None, ""},
     disaggregation_column_new : {None, "Pollutant", "Year"}]

\* The identity mapping for a frame format returned: Year and Value map to
\* themselves, a middle column keeps its name.
IdentityArgs(t) ==
    [year_column |-> "Year", value_column |-> "Value",
     disaggregation_column |-> IF Len(t.columns) = 3 THEN t.columns[2] ELSE None,
     disaggregation_column_new |-> None]

InitFormat ==
    /\ fn = "format"
    /\ df \in FormatInputs
    /\ args \in FormatArgs
    /\ out = NoResult
    /\ pc = "call"
    /\ depth = 0
    /\ io = <<>>

CallFormat ==
    /\ pc = "call"
    /\ fn = "format"
    /\ out' = format(df, args.year_column, args.value_column,
                     args.disaggregation_column, args.disaggregation_column_new)
    /\ pc' = "return"
    /\ UNCHANGED <<fn, df, args, depth, io>>

\* The caller formats the returned frame again, with the identity mapping.
Reformat ==
    /\ pc = "return"
    /\ fn = "format"
    /\ out.ok
    /\ depth < MaxRepipe
    /\ df' = Frame(out)
    /\ args' = IdentityArgs(Frame(out))
    /\ out' = NoResult
    /\ pc' = "call"
    /\ depth' = depth + 1
    /\ UNCHANGED <<fn, io>>

NextFormat == CallFormat \/ Reformat

SpecFormat == InitFormat /\ [][NextFormat]_vars

(***************************************************************************)
(* Python strings.  A cell or label is a TLA+ string; Chars gives the      *)
(* characters of every string the air three frames can hold as a label,    *)
(* of every piece a pattern can extract from one, of every column label    *)
(* str() can render and of every string upload_raw is given or builds.     *)
(***************************************************************************)
Chars ==
    "2011 (total)" :> <<"2", "0", "1", "1", " ", "(", "t", "o", "t", "a", "l", ")">> @@
    "2012 (total)" :> <<"2", "0", "1", "2", " ", "(", "t", "o", "t", "a", "l", ")">> @@
    "2011 (anthropogenic)" :> <<"2", "0", "1", "1", " ", "(", "a", "n", "t", "h", "r", "o", "p", "o", "g", "e", "n", "i", "c", ")">> @@
    "Region" :> <<"R", "e", "g", "i", "o", "n">> @@
    "variable" :> <<"v", "a", "r", "i", "a", "b", "l", "e">> @@
    "ugm-3" :> <<"u", "g", "m", "-", "3">> @@
    "year" :> <<"y", "e", "a", "r">> @@
    "measure" :> <<"m", "e", "a", "s", "u", "r", "e">> @@
    "2011" :> <<"2", "0", "1", "1">> @@
    "2012" :> <<"2", "0", "1", "2">> @@
    "total" :> <<"t", "o", "t", "a", "l">> @@
    "https://u/d.x" :> <<"h", "t", "t", "p", "s", ":", "/", "/", "u", "/", "d", ".", "x">> @@
    "http://u/d.x" :> <<"h", "t", "t", "p", ":", "/", "/", "u", "/", "d", ".", "x">> @@
    "https://u/" :> <<"h", "t", "t", "p", "s", ":", "/", "/", "u", "/">> @@
    "HTTPS://u/d.x" :> <<"H", "T", "T", "P", "S", ":", "/", "/", "u", "/", "d", ".", "x">> @@
    "/p/d.x" :> <<"/", "p", "/", "d", ".", "x">> @@
    "d.x" :> <<"d", ".", "x">> @@
    "d.csv" :> <<"d", ".", "c", "s", "v">> @@
    "k/d.csv" :> <<"k", "/", "d", ".", "c", "s", "v">> @@
    "2022" :> <<"2", "0", "2", "2">> @@
    "A1" :> <<"A", "1">> @@
    "_update/raw/" :> <<"_", "u", "p", "d", "a", "t", "e", "/", "r", "a", "w", "/">> @@
    "s3://" :> <<"s", "3", ":", "/", "/">> @@
    "s3-ranch-029" :> <<"s", "3", "-", "r", "a", "n", "c", "h", "-", "0", "2", "9">> @@
    "b2" :> <<"b", "2">> @@
    "None" :> <<"N", "o", "n", "e">> @@
    "https://" :> <<"h", "t", "t", "p", "s", ":", "/", "/">> @@
    "http://" :> <<"h", "t", "t", "p", ":", "/", "/">> @@
    "user-agent" :> <<"u", "s", "e", "r", "-", "a", "g", "e", "n", "t">> @@
    "accept" :> <<"a", "c", "c", "e", "p", "t">> @@
    "1" :> <<"1">> @@
    "2" :> <<"2">> @@
    "3" :> <<"3">> @@
    "10" :> <<"1", "0">> @@
    "anthropogenic" :> <<"a", "n", "t", "h", "r", "o", "p", "o", "g", "e", "n", "i", "c">>

StrOf(cs) == CHOOSE s \in DOMAIN Chars : Chars[s] = cs

IsDigit(c) == c \in {"0", "1", "2", "3", "4", "5", "6", "7", "8", "9"}
IsSpace(c) == c = " "

\* re.search of (\d{4}): the leftmost four digits in a row; {} when none.
YearMatches(cs) ==
    {i \in 1..(Len(cs) - 3) : \A j \in i..(i + 3) : IsDigit(cs[j])}

\* re.search of \((\S*)\): from the leftmost "(" that some ")" closes with no
\* white space between, up to the last such ")" (\S* is greedy).
MeasureCloses(cs, i) ==
    {j \in (i + 1)..Len(cs) : cs[j] = ")" /\ \A k \in (i + 1)..(j - 1) : ~IsSpace(cs[k])}

MeasureMatches(cs) ==
    {i \in 1..Len(cs) : cs[i] = "(" /\ MeasureCloses(cs, i) # {}}

Min(S) == CHOOSE x \in S : \A y \in S : x <= y
Max(S) == CHOOSE x \in S : \A y \in S : x >= y

\* Series.str.extract("(\d{4})") on one cell: NaN for NaN and for no match.
ExtractYear(cell) ==
    IF cell = NaN THEN NaN
    ELSE LET cs == Chars[cell]
             m == YearMatches(cs)
         IN IF m = {} THEN NaN ELSE StrOf(SubSeq(cs, Min(m), Min(m) + 3))

\* Series.str.extract("\((\S*)\)") on one cell.
ExtractMeasure(cell) ==
    IF cell = NaN THEN NaN
    ELSE LET cs == Chars[cell]
             m == MeasureMatches(cs)
         IN IF m = {} THEN NaN
            ELSE StrOf(SubSeq(cs, Min(m) + 1, Max(MeasureCloses(cs, Min(m))) - 1))

(***************************************************************************)
(* pandas: DataFrame.melt, df[label] = cells, DataFrame.query.             *)
(***************************************************************************)
PositionOf(t, k) == CHOOSE i \in 1..Len(t.columns) : t.columns[i] = k

\* The positions of the columns that are not identifiers, in column order.
ValuePositions(t, id_vars) ==
    SelectSeq(Indices(Len(t.columns)), LAMBDA i : t.columns[i] \notin Range(id_vars))

\* A mutant of Melt: the last value column is left out.
MeltDropsLastValueColumn(t, id_vars, var_name, value_name) ==
    IF \E i \in 1..Len(id_vars) : id_vars[i] \notin Range(t.columns)
    THEN Raise("KeyError")
    ELSE LET N == Len(t.data)
             vp == ValuePositions(t, id_vars)
             K == IF Len(vp) > 1 THEN Len(vp) - 1 ELSE Len(vp)
         IN Return([columns |-> id_vars \o <<var_name, value_name>>,
                    data |-> [n \in 1..(N * K) |->
                        LET k == ((n - 1) \div N) + 1
                            r == ((n - 1) % N) + 1
                        IN [i \in 1..Len(id_vars) |-> t.data[r][PositionOf(t, id_vars[i])]]
                               \o <<t.columns[vp[k]], t.data[r][vp[k]]>>]])

\* A mutant of Melt: the rows come input row by input row, each row's value
\* columns together.
MeltRowByRow(t, id_vars, var_name, value_name) ==
    IF \E i \in 1..Len(id_vars) : id_vars[i] \notin Range(t.columns)
    THEN Raise("KeyError")
    ELSE LET N == Len(t.data)
             vp == ValuePositions(t, id_vars)
             K == Len(vp)
         IN Return([columns |-> id_vars \o <<var_name, value_name>>,
                    data |-> [n \in 1..(N * K) |->
                        LET r == ((n - 1) \div K) + 1
                            k == ((n - 1) % K) + 1
                        IN [i \in 1..Len(id_vars) |-> t.data[r][PositionOf(t, id_vars[i])]]
                               \o <<t.columns[vp[k]], t.data[r][vp[k]]>>]])

\* melt with value_vars left out: every column outside id_vars is unpivoted.
\* The rows come value column by value column, each block in row order.
Melt(t, id_vars, var_name, value_name) ==
    IF \E i \in 1..Len(id_vars) : id_vars[i] \notin Range(t.columns)
    THEN Raise("KeyError")
    ELSE LET N == Len(t.data)
             vp == ValuePositions(t, id_vars)
             K == Len(vp)
         IN Return([columns |-> id_vars \o <<var_name, value_name>>,
                    data |-> [n \in 1..(N * K) |->
                        LET k == ((n - 1) \div N) + 1
                            r == ((n - 1) % N) + 1
                        IN [i \in 1..Len(id_vars) |-> t.data[r][PositionOf(t, id_vars[i])]]
                               \o <<t.columns[vp[k]], t.data[r][vp[k]]>>]])

\* What melt can do when value_name already labels a column: pandas 1.x
\* warns and melts, pandas 2.x raises ValueError.
MeltOutcomes(t, id_vars, var_name, value_name) ==
    IF value_name \in Range(t.columns)
    THEN {Raise("ValueError"), Melt(t, id_vars, var_name, value_name)}
    ELSE {Melt(t, id_vars, var_name, value_name)}

\* df[k] = cells: replaces the column labelled k, or appends a new last column.
SetColumn(t, k, cells) ==
    IF k \in Range(t.columns)
    THEN [columns |-> t.columns,
          data |-> [r \in 1..Len(t.data) |->
                       [i \in 1..Len(t.columns) |->
                           IF t.columns[i] = k THEN cells[r] ELSE t.data[r][i]]]]
    ELSE [columns |-> Append(t.columns, k),
          data |-> [r \in 1..Len(t.data) |-> Append(t.data[r], cells[r])]]

\* A mutant of QueryAllEqual: a predicate on a name that labels no column
\* is skipped.
QueryAllEqualSkipAbsent(t, predicates) ==
    Return([columns |-> t.columns,
            data |-> SelectSeq(t.data, LAMBDA row :
                \A i \in 1..Len(predicates) :
                    predicates[i][1] \in Range(t.columns)
                        => row[PositionOf(t, predicates[i][1])] = predicates[i][2])])

\* The rows, in order, whose cell under each predicate's column equals the
\* predicate's value; a name that labels no column is an undefined variable.
QueryAllEqual(t, predicates) ==
    IF \E i \in 1..Len(predicates) : predicates[i][1] \notin Range(t.columns)
    THEN Raise("UndefinedVariableError")
    ELSE Return([columns |-> t.columns,
                 data |-> SelectSeq(t.data, LAMBDA row :
                     \A i \in 1..Len(predicates) :
                         row[PositionOf(t, predicates[i][1])] = predicates[i][2])])

(***************************************************************************)
(* air/three/transform.py                                                  *)
(***************************************************************************)
\* The results unpivot can give (a set: see MeltOutcomes).
unpivot(t) == MeltOutcomes(t, <<"Area code", "Country">>, "variable", "ugm-3")

\* Adds the columns year and measure to the frame it is given, in place, and
\* returns that frame; df.variable raises AttributeError without the column.
split_variable_column(t) ==
    IF "variable" \notin Range(t.columns)
    THEN Raise("AttributeError")
    ELSE LET variable == ColumnAt(t, PositionOf(t, "variable"))
             with_year == SetColumn(t, "year",
                              [r \in 1..Len(t.data) |-> ExtractYear(variable[r])])
             variable2 == ColumnAt(with_year, PositionOf(with_year, "variable"))
         IN Return(SetColumn(with_year, "measure",
                       [r \in 1..Len(t.data) |-> ExtractMeasure(variable2[r])]))

select_columns(t) == GetItem(t, <<"Area code", "Country", "year", "measure", "ugm-3">>)

\* A mutant of filter_rows: the predicate on measure is left out.
filter_rows_country_only(t) ==
    IF "measure" \notin Range(t.columns)
    THEN Raise("UndefinedVariableError")
    ELSE QueryAllEqual(t, << <<"Country", "England">> >>)

filter_rows(t) == QueryAllEqual(t, << <<"Country", "England">>, <<"measure", "total">> >>)

\* r.pipe(step): the step on the frame r returned; an exception ends the chain.
PipeSplitVariableColumn(r) == IF r.ok THEN split_variable_column(Frame(r)) ELSE r
PipeSelectColumns(r) == IF r.ok THEN select_columns(Frame(r)) ELSE r
PipeFilterRows(r) == IF r.ok THEN filter_rows(Frame(r)) ELSE r

\* A mutant of transform_air_three: select_columns runs before
\* split_variable_column.
transform_select_before_split(t) ==
    {PipeFilterRows(PipeSplitVariableColumn(PipeSelectColumns(u))) : u \in unpivot(t)}

\* The results transform_air_three can give, one for each result of unpivot.
transform_air_three(t) ==
    {PipeFilterRows(PipeSelectColumns(PipeSplitVariableColumn(u))) : u \in unpivot(t)}

(***************************************************************************)
(* The frames the air three functions are called with: wide frames as      *)
(* extracted, with the identifier columns before or after up to            *)
(* MaxValueCols value columns, either identifier possibly missing, and up  *)
(* to MaxRows rows; some already hold a column labelled measure.           *)
(***************************************************************************)
AirIds == <<"Area code", "Country">>
AirValueNames == {"2011 (total)", "2012 (total)", "2011 (anthropogenic)", "Region"}
Countries == {"England", "Wales"}

\* The cells of each column but Country, by row.
AirCells ==
    "Area code" :> <<"A1", "A2", "A3", "A4">> @@
    "2011 (total)" :> <<"10", "11", "12", "13">> @@
    "2012 (total)" :> <<"20", "21", "22", "23">> @@
    "2011 (anthropogenic)" :> <<"30", "31", "32", "33">> @@
    "Region" :> <<"40", "41", "42", "43">> @@
    "measure" :> <<"total", "max", "total", "max">>

AirColumns ==
    {ids \o vals : ids \in {<<>>, <<"Area code">>, <<"Country">>, AirIds,
                              <<"measure">>, <<"Country", "measure">>},
                   vals \in Arrangements(AirValueNames, MaxValueCols)}
    \cup {vals \o ids : ids \in {<<"Country", "Area code">>},
                        vals \in Arrangements(AirValueNames, MaxValueCols)}

AirFrame(cols, countries) ==
    [columns |-> cols,
     data |-> [r \in 1..Len(countries) |->
                  [i \in 1..Len(cols) |->
                      IF cols[i] = "Country" THEN countries[r] ELSE AirCells[cols[i]][r]]]]

AirInputs ==
    {AirFrame(cols, countries) :
        cols \in AirColumns,
        countries \in UNION {[1..n -> Countries] : n \in 0..MaxRows}}

AirSteps == {"unpivot", "split_variable_column", "select_columns", "filter_rows"}

InitAir ==
    /\ fn \in AirSteps \cup {"transform_air_three"}
    /\ df \in AirInputs
    /\ args = NoArgs
    /\ out = NoResult
    /\ pc = "call"
    /\ depth = 0
    /\ io = <<>>

CallUnpivot ==
    /\ pc = "call"
    /\ fn = "unpivot"
    /\ \E r \in unpivot(df) : out' = r
    /\ pc' = "return"
    /\ UNCHANGED <<fn, df, args, depth, io>>

\* split_variable_column assigns to the frame it is given and returns it.
CallSplitVariableColumn ==
    /\ pc = "call"
    /\ fn = "split_variable_column"
    /\ out' = split_variable_column(df)
    /\ df' = IF out'.ok THEN Frame(out') ELSE df
    /\ pc' = "return"
    /\ UNCHANGED <<fn, args, depth, io>>

CallSelectColumns ==
    /\ pc = "call"
    /\ fn = "select_columns"
    /\ out' = select_columns(df)
    /\ pc' = "return"
    /\ UNCHANGED <<fn, df, args, depth, io>>

CallFilterRows ==
    /\ pc = "call"
    /\ fn = "filter_rows"
    /\ out' = filter_rows(df)
    /\ pc' = "return"
    /\ UNCHANGED <<fn, df, args, depth, io>>

CallTransformAirThree ==
    /\ pc = "call"
    /\ fn = "transform_air_three"
    /\ \E r \in transform_air_three(df) : out' = r
    /\ pc' = "return"
    /\ UNCHANGED <<fn, df, args, depth, io>>

\* The caller pipes the frame a step returned into another step.
PipeAir ==
    /\ pc = "return"
    /\ fn \in AirSteps
    /\ out.ok
    /\ depth < MaxPipes
    /\ fn' \in AirSteps
    /\ df' = Frame(out)
    /\ out' = NoResult
    /\ pc' = "call"
    /\ depth' = depth + 1
    /\ UNCHANGED <<args, io>>

NextAir ==
    \/ CallUnpivot
    \/ CallSplitVariableColumn
    \/ CallSelectColumns
    \/ CallFilterRows
    \/ CallTransformAirThree
    \/ PipeAir

SpecAir == InitAir /\ [][NextAir]_vars

(***************************************************************************)
(* validate.py.  A DataFrameSchema is a sequence of columns, each required *)
(* and each with one isin check: [name, allowed].                          *)
(***************************************************************************)
\* What a schema finds wrong with a frame, in the order it looks: first each
\* schema column the frame lacks, then, column by column, each check that
\* some cell of a present column fails.
RECURSIVE MissingColumns(_, _)
MissingColumns(schema, t) ==
    IF schema = <<>> THEN <<>>
    ELSE (IF Head(schema).name \in Range(t.columns)
          THEN <<>>
          ELSE << <<Head(schema).name, "column_in_dataframe">> >>)
         \o MissingColumns(Tail(schema), t)

RECURSIVE FailedChecks(_, _)
FailedChecks(schema, t) ==
    IF schema = <<>> THEN <<>>
    ELSE (IF /\ Head(schema).name \in Range(t.columns)
             /\ \E r \in 1..Len(t.data) :
                   t.data[r][PositionOf(t, Head(schema).name)] \notin Head(schema).allowed
          THEN << <<Head(schema).name, "isin">> >>
          ELSE <<>>)
         \o FailedChecks(Tail(schema), t)

SchemaFailures(schema, t) == MissingColumns(schema, t) \o FailedChecks(schema, t)

\* A schema call that hands back the schema's columns in the schema's order.
SchemaCallInSchemaOrder(schema, t) ==
    LET failures == SchemaFailures(schema, t)
    IN IF failures = <<>>
       THEN GetItem(t, [i \in 1..Len(schema) |-> schema[i].name])
       ELSE RaiseSchemaError(<<Head(failures)>>)

\* schema(df) is schema.validate(df) with lazy left False: the first failure
\* found is raised as a SchemaError; a frame that passes is returned.
SchemaCall(schema, t) ==
    LET failures == SchemaFailures(schema, t)
    IN IF failures = <<>> THEN Return(t) ELSE RaiseSchemaError(<<Head(failures)>>)

\* The dictionary of schemas read from file_path.
SchemaDict ==
    [air |->
        [three |->
            [extracted |->
                <<[name |-> "Area code", allowed |-> {"A1", "A2", "A3", "A4"}],
                  [name |-> "Country", allowed |-> {"England", "Wales"}]>>,
             transformed |->
                <<[name |-> "Country", allowed |-> {"England"}],
                  [name |-> "measure", allowed |-> {"total"}]>>]]]

HasSchema(theme, indicator, stage) ==
    /\ theme \in DOMAIN SchemaDict
    /\ indicator \in DOMAIN SchemaDict[theme]
    /\ stage \in DOMAIN SchemaDict[theme][indicator]

validate(theme, indicator, stage, t) ==
    IF HasSchema(theme, indicator, stage)
    THEN SchemaCall(SchemaDict[theme][indicator][stage], t)
    ELSE Raise("KeyError")

(***************************************************************************)
(* The frames and arguments validate is called with.                       *)
(***************************************************************************)
ValidateCells ==
    "Area code" :> {"A1", "B7"} @@
    "Country" :> {"England", "Wales"} @@
    "measure" :> {"total", "max"}

ValidateRows(cols) == {row \in [1..Len(cols) -> {"A1", "B7", "England", "Wales", "total", "max"}] :
                          \A i \in 1..Len(cols) : row[i] \in ValidateCells[cols[i]]}

ValidateFrames(cols) ==
    {[columns |-> cols, data |-> rows] :
        rows \in UNION {[1..n -> ValidateRows(cols)] : n \in 0..MaxRows}}

ValidateInputs ==
    UNION {ValidateFrames(cols) : cols \in Arrangements(DOMAIN ValidateCells, MaxValidateCols)}

ValidateArgs ==
    [theme : {"air", "water"}, indicator : {"three", "nine"},
     stage : {"extracted", "transformed", "formatted"}]

InitValidate ==
    /\ fn = "validate"
    /\ df \in ValidateInputs
    /\ args \in ValidateArgs
    /\ out = NoResult
    /\ pc = "call"
    /\ depth = 0
    /\ io = <<>>

CallValidate ==
    /\ pc = "call"
    /\ fn = "validate"
    /\ out' = validate(args.theme, args.indicator, args.stage, df)
    /\ pc' = "return"
    /\ UNCHANGED <<fn, df, args, depth, io>>

NextValidate == CallValidate

SpecValidate == InitValidate /\ [][NextValidate]_vars

(***************************************************************************)
(* The world outside a call: io records, in order, each call made to it.   *)
(***************************************************************************)
Event(call, what, with) == [call |-> call, what |-> what, with |-> with]

Calls(name) == SelectSeq(io, LAMBDA e : e.call = name)

(***************************************************************************)
(* extract: column labels as a workbook gives them.  A label is an int or  *)
(* a str; Index.astype(str) turns each into its str().                     *)
(***************************************************************************)
IntLabel(n) == [kind |-> "int", int |-> n, str |-> ""]
StrLabel(s) == [kind |-> "str", int |-> 0, str |-> s]

Digits == <<"0", "1", "2", "3", "4", "5", "6", "7", "8", "9">>

\* The characters of str(n) for an int n.
RECURSIVE IntChars(_)
IntChars(n) ==
    IF n < 0 THEN <<"-">> \o IntChars(0 - n)
    ELSE IF n < 10 THEN <<Digits[n + 1]>>
    ELSE IntChars(n \div 10) \o <<Digits[(n % 10) + 1]>>

LabelToString(l) ==
    IF l.kind = "str" THEN l ELSE StrLabel(StrOf(IntChars(l.int)))

\* A conversion that leaves every label as it finds it.
column_name_kept(t) == Return(t)

\* df.columns = df.columns.astype(str); return df
_column_name_to_string(t) ==
    Return([columns |-> [i \in 1..Len(t.columns) |-> LabelToString(t.columns[i])],
            data |-> t.data])

\* The dictionary read from the JSON file at path: theme -> indicator -> kwargs.
DatasetDict ==
    [air |->
        [one |-> [io |-> "air_one.xlsx", sheet_name |-> "Table1"],
         three |-> [io |-> "air_three.ods", sheet_name |-> "Sheet1"]]]

RaiseKeyError(k) ==
    [ok |-> FALSE, err |-> "KeyError", columns |-> <<>>, data |-> <<>>,
     failures |-> <<>>, value |-> <<k>>]

\* A lookup that tries the indicator in every theme before the theme itself.
_kwargs_indicator_first(dictionary, theme, indicator) ==
    IF \A t \in DOMAIN dictionary : indicator \notin DOMAIN dictionary[t]
    THEN [raised |-> TRUE, key |-> indicator, kwargs |-> None,
          printed |-> <<Event("print", <<"Indicator", indicator>>, <<"Theme", theme>>)>>]
    ELSE IF theme \notin DOMAIN dictionary
    THEN [raised |-> TRUE, key |-> theme, kwargs |-> None,
          printed |-> <<Event("print", <<"Theme", theme>>, <<>>)>>]
    ELSE IF indicator \notin DOMAIN dictionary[theme]
    THEN [raised |-> TRUE, key |-> indicator, kwargs |-> None,
          printed |-> <<Event("print", <<"Indicator", indicator>>, <<"Theme", theme>>)>>]
    ELSE [raised |-> FALSE, key |-> None, kwargs |-> dictionary[theme][indicator],
          printed |-> <<>>]

\* dictionary[theme], then dictionary_theme[indicator]; a KeyError is
\* announced with print and raised again.
_kwargs_from_dict(dictionary, theme, indicator) ==
    IF theme \notin DOMAIN dictionary
    THEN [raised |-> TRUE, key |-> theme, kwargs |-> None,
          printed |-> <<Event("print", <<"Theme", theme>>, <<>>)>>]
    ELSE IF indicator \notin DOMAIN dictionary[theme]
    THEN [raised |-> TRUE, key |-> indicator, kwargs |-> None,
          printed |-> <<Event("print", <<"Indicator", indicator>>, <<"Theme", theme>>)>>]
    ELSE [raised |-> FALSE, key |-> None, kwargs |-> dictionary[theme][indicator],
          printed |-> <<>>]

(***************************************************************************)
(* The workbooks extract reads and the frames given to                     *)
(* _column_name_to_string.                                                 *)
(***************************************************************************)
ExtractLabels == {IntLabel(1), IntLabel(2), IntLabel(3), IntLabel(10), StrLabel("1")}

\* The rows of a sheet: cells that differ from one column to the next and
\* from one row to the other.
ExtractRows(cols) ==
    {[i \in 1..Len(cols) |-> IF i % 2 = 1 THEN "x" ELSE "y"],
     [i \in 1..Len(cols) |-> IF i % 2 = 1 THEN "y" ELSE "x"]}

ExtractFrames(cols) ==
    {[columns |-> cols, data |-> rows] :
        rows \in UNION {[1..n -> ExtractRows(cols)] : n \in 0..MaxExtractRows}}

ExtractInputs ==
    UNION {ExtractFrames(cols) : cols \in Arrangements(ExtractLabels, MaxExtractCols)}

NoFrame == [columns |-> <<>>, data |-> <<>>]

\* workbook: the sheet read_excel finds; path: the JSON file of the datasets.
ExtractArgs ==
    [theme : {"air", "water"}, indicator : {"three", "nine"},
     workbook : {t \in ExtractInputs : t.columns # <<>>}, path : {"datasets.json"}]

InitExtract ==
    /\ \/ /\ fn = "extract"
          /\ df = NoFrame
          /\ args \in ExtractArgs
       \/ /\ fn = "_column_name_to_string"
          /\ df \in ExtractInputs
          /\ args = NoArgs
    /\ out = NoResult
    /\ pc = "call"
    /\ depth = 0
    /\ io = <<>>

\* _column_name_to_string assigns to the columns of the frame it is given.
CallColumnNameToString ==
    /\ pc = "call"
    /\ fn = "_column_name_to_string"
    /\ out' = _column_name_to_string(df)
    /\ df' = Frame(out')
    /\ pc' = "return"
    /\ UNCHANGED <<fn, args, depth, io>>

\* extract: the dictionary is opened, the kwargs looked up, the workbook
\* read (which the file system or the network can fail) and its labels
\* converted.
CallExtract ==
    /\ pc = "call"
    /\ fn = "extract"
    /\ LET opened == <<Event("open", <<args.path>>, <<>>)>>
           found == _kwargs_from_dict(DatasetDict, args.theme, args.indicator)
           read == <<Event("read_excel", <<found.kwargs.io>>, <<found.kwargs.sheet_name>>)>>
       IN IF found.raised
          THEN /\ out' = RaiseKeyError(found.key)
               /\ io' = io \o opened \o found.printed
          ELSE /\ io' = io \o opened \o read
               /\ \/ out' = _column_name_to_string(args.workbook)
                  \/ out' = Raise("OSError")
    /\ pc' = "return"
    /\ UNCHANGED <<fn, df, args, depth>>

NextExtract == CallColumnNameToString \/ CallExtract

SpecExtract == InitExtract /\ [][NextExtract]_vars

(***************************************************************************)
(* upload_raw.  A str here is the sequence of its characters, so that      *)
(* startswith, basename and the f-strings do what Python does.             *)
(***************************************************************************)
NoneStr == <<None>>

\* Python truthiness of an Optional[str]: None and "" are falsy.
TruthyStr(s) == s # NoneStr /\ s # <<>>

\* What an f-string puts in place of {x}.
Str(x) == IF x = NoneStr THEN Chars["None"] ELSE x

StartsWith(s, prefix) ==
    /\ Len(s) >= Len(prefix)
    /\ SubSeq(s, 1, Len(prefix)) = prefix

\* os.path.basename: what follows the last "/".
basename(p) ==
    LET slashes == {i \in 1..Len(p) : p[i] = "/"}
    IN IF slashes = {} THEN p ELSE SubSeq(p, Max(slashes) + 1, Len(p))

\* f"{year}_update/raw/{indicator_code}/{filename}"
KeyFor(year, indicator_code, filename) ==
    Str(year) \o Chars["_update/raw/"] \o Str(indicator_code) \o <<"/">> \o Str(filename)

\* f"s3://{bucket_name}/{_key}"
S3Path(bucket_name, key) == Chars["s3://"] \o Str(bucket_name) \o <<"/">> \o Str(key)

ReturnStr(s) ==
    [ok |-> TRUE, err |-> "", columns |-> <<>>, data |-> <<>>, failures |-> <<>>, value |-> s]

\* The header the str overload sends when it is given none.
DefaultHeaders == Chars["user-agent"]

\* What the call is given, as the registered overloads bind it: their
\* parameters run ..., acl, key_name, filename, headers, while those of
\* upload_raw itself run ..., acl, filename, key_name, headers, so arguments
\* passed by position reach the overload with the two exchanged.
Bind(a) ==
    IF a.positional
    THEN [a EXCEPT !.filename = a.key_name, !.key_name = a.filename]
    ELSE a

\* A DataFrame overload that writes the object before it looks at its names.
upload_raw_DataFrame_put_first(a, world) ==
    LET _key == IF TruthyStr(a.key_name) THEN a.key_name
                ELSE KeyFor(a.year, a.indicator_code, a.filename)
        put == <<Event("put_object", _key, <<"to_csv">>)>>
    IN IF a.filename = NoneStr /\ a.key_name = NoneStr
       THEN [out |-> Raise("ValueError"), io |-> put]
       ELSE IF world.s3
       THEN [out |-> ReturnStr(S3Path(a.bucket_name, _key)), io |-> put]
       ELSE [out |-> Raise("ClientError"), io |-> put]

\* The overload for a DataFrame.  world.s3: whether S3 accepts the write.
upload_raw_DataFrame(a, world) ==
    IF a.filename = NoneStr /\ a.key_name = NoneStr
    THEN [out |-> Raise("ValueError"), io |-> <<>>]
    ELSE LET _key == IF TruthyStr(a.key_name) THEN a.key_name
                     ELSE KeyFor(a.year, a.indicator_code, a.filename)
             put == <<Event("put_object", _key, <<"to_csv">>)>>
         IN IF world.s3
            THEN [out |-> ReturnStr(S3Path(a.bucket_name, _key)), io |-> put]
            ELSE [out |-> Raise("ClientError"), io |-> put]

\* A str overload that writes the response before it checks its status.
upload_raw_str_put_first(a, world) ==
    LET _filename == IF TruthyStr(a.filename) THEN a.filename ELSE basename(a.df_or_path)
        _key == IF TruthyStr(a.key_name) THEN a.key_name
                ELSE KeyFor(a.year, a.indicator_code, _filename)
        _headers == IF TruthyStr(a.headers) THEN a.headers ELSE DefaultHeaders
        got == <<Event("get", a.df_or_path, _headers)>>
        checked == <<Event("raise_for_status", <<world.status>>, <<>>)>>
        put == <<Event("put_object", _key, <<"content">>)>>
        uploaded == <<Event("upload_file", _key, a.df_or_path)>>
    IN IF StartsWith(a.df_or_path, Chars["https://"]) \/ StartsWith(a.df_or_path, Chars["http://"])
       THEN IF ~world.reachable
            THEN [out |-> Raise("ConnectionError"), io |-> got]
            ELSE IF ~world.s3
            THEN [out |-> Raise("ClientError"), io |-> got \o put]
            ELSE IF world.status >= 400
            THEN [out |-> Raise("HTTPError"), io |-> got \o put \o checked]
            ELSE [out |-> ReturnStr(S3Path(a.bucket_name, _key)), io |-> got \o put \o checked]
       ELSE IF world.s3
            THEN [out |-> ReturnStr(S3Path(a.bucket_name, _key)), io |-> uploaded]
            ELSE [out |-> Raise("S3UploadFailedError"), io |-> uploaded]

\* The overload for a str.  world.reachable: whether the request gets a
\* response; world.status: the status of that response; world.s3: whether
\* S3 accepts the write (for a local file: whether there is a file to send).
upload_raw_str(a, world) ==
    LET _filename == IF TruthyStr(a.filename) THEN a.filename ELSE basename(a.df_or_path)
        _key == IF TruthyStr(a.key_name) THEN a.key_name
                ELSE KeyFor(a.year, a.indicator_code, _filename)
        _headers == IF TruthyStr(a.headers) THEN a.headers ELSE DefaultHeaders
        got == <<Event("get", a.df_or_path, _headers)>>
        checked == <<Event("raise_for_status", <<world.status>>, <<>>)>>
        put == <<Event("put_object", _key, <<"content">>)>>
        uploaded == <<Event("upload_file", _key, a.df_or_path)>>
    IN IF StartsWith(a.df_or_path, Chars["https://"]) \/ StartsWith(a.df_or_path, Chars["http://"])
       THEN IF ~world.reachable
            THEN [out |-> Raise("ConnectionError"), io |-> got]
            ELSE IF world.status >= 400
            THEN [out |-> Raise("HTTPError"), io |-> got \o checked]
            ELSE IF world.s3
            THEN [out |-> ReturnStr(S3Path(a.bucket_name, _key)), io |-> got \o checked \o put]
            ELSE [out |-> Raise("ClientError"), io |-> got \o checked \o put]
       ELSE IF world.s3
            THEN [out |-> ReturnStr(S3Path(a.bucket_name, _key)), io |-> uploaded]
            ELSE [out |-> Raise("S3UploadFailedError"), io |-> uploaded]

(***************************************************************************)
(* The calls of upload_raw, as the caller writes them against the          *)
(* signature of upload_raw, and the worlds they meet.                      *)
(***************************************************************************)
UploadPaths ==
    {Chars["https://u/d.x"], Chars["http://u/d.x"], Chars["https://u/"],
     Chars["HTTPS://u/d.x"], Chars["/p/d.x"], Chars["d.x"]}

UploadArgs ==
    [type : {"DataFrame", "str"},
     df_or_path : UploadPaths,
     indicator_code : {Chars["A1"]},
     year : {Chars["2022"]},
     bucket_name : {Chars["s3-ranch-029"], Chars["b2"]},
     filename : {NoneStr, <<>>, Chars["d.csv"]},
     key_name : {NoneStr, <<>>, Chars["k/d.csv"]},
     headers : {NoneStr, Chars["accept"]},
     positional : BOOLEAN]

Worlds == [reachable : BOOLEAN, status : {200, 404, 500}, s3 : BOOLEAN]

InitUpload ==
    /\ fn = "upload_raw"
    /\ args \in UploadArgs
    /\ df = IF args.type = "DataFrame" THEN [columns |-> <<"a">>, data |-> <<<<"1">>>>] ELSE NoFrame
    /\ args.type = "DataFrame" => args.df_or_path = Chars["d.x"] /\ args.headers = NoneStr
    /\ out = NoResult
    /\ pc = "call"
    /\ depth = 0
    /\ io = <<>>

CallUploadRawDataFrame ==
    /\ pc = "call"
    /\ fn = "upload_raw"
    /\ args.type = "DataFrame"
    /\ \E world \in Worlds :
          LET ran == upload_raw_DataFrame(Bind(args), world)
          IN out' = ran.out /\ io' = io \o ran.io
    /\ pc' = "return"
    /\ UNCHANGED <<fn, df, args, depth>>

CallUploadRawStr ==
    /\ pc = "call"
    /\ fn = "upload_raw"
    /\ args.type = "str"
    /\ \E world \in Worlds :
          LET ran == upload_raw_str(Bind(args), world)
          IN out' = ran.out /\ io' = io \o ran.io
    /\ pc' = "return"
    /\ UNCHANGED <<fn, df, args, depth>>

NextUpload == CallUploadRawDataFrame \/ CallUploadRawStr

SpecUpload == InitUpload /\ [][NextUpload]_vars

(***************************************************************************)
(* Every call of the library.                                              *)
(***************************************************************************)
Init == InitFormat \/ InitAir \/ InitValidate \/ InitExtract \/ InitUpload

Next == NextFormat \/ NextAir \/ NextValidate \/ NextExtract \/ NextUpload

Spec == Init /\ [][Next]_vars

(***************************************************************************)
(* Claims about format.                                                    *)
(***************************************************************************)
\* The columns a call of format names: the year and value columns always,
\* the disaggregation column when one is given.
NamedColumns(a) ==
    {a.year_column, a.value_column}
        \cup (IF Truthy(a.disaggregation_column) THEN {a.disaggregation_column} ELSE {})

UniqueColumns(t) == Cardinality(Range(t.columns)) = Len(t.columns)

\* The cells of the one column labelled k.
ColumnOf(t, k) == ColumnAt(t, CHOOSE i \in 1..Len(t.columns) : t.columns[i] = k)

FormatReturned == fn = "format" /\ pc = "return"

\* C1: format returns the columns 'Year', then the disaggregation column
\* (under its new name when one is given, else its own) only if one was
\* given, then 'Value', each carrying the cells of the input column it was
\* mapped from, for every choice of the named columns among the input's
\* columns.
C1_FormatColumnContract ==
    (FormatReturned /\ UniqueColumns(df) /\ NamedColumns(args) \subseteq Range(df.columns))
        => /\ out.ok
           /\ IF Truthy(args.disaggregation_column)
              THEN /\ out.columns =
                        <<"Year",
                          IF Truthy(args.disaggregation_column_new)
                          THEN args.disaggregation_column_new
                          ELSE args.disaggregation_column,
                          "Value">>
                   /\ ColumnAt(out, 1) = ColumnOf(df, args.year_column)
                   /\ ColumnAt(out, 2) = ColumnOf(df, args.disaggregation_column)
                   /\ ColumnAt(out, 3) = ColumnOf(df, args.value_column)
              ELSE /\ out.columns = <<"Year", "Value">>
                   /\ ColumnAt(out, 1) = ColumnOf(df, args.year_column)
                   /\ ColumnAt(out, 2) = ColumnOf(df, args.value_column)

\* C2: called with no disaggregation column, format returns exactly the two
\* columns 'Year' and 'Value', for every year_column and value_column that
\* name columns of the input, the same column twice included.
C2_NoDisaggregationTwoColumns ==
    (/\ FormatReturned
     /\ ~Truthy(args.disaggregation_column)
     /\ {args.year_column, args.value_column} \subseteq Range(df.columns))
        => out.ok /\ out.columns = <<"Year", "Value">>

\* C3: format applied to a frame format returned, with the identity mapping,
\* returns that frame unchanged: same column names, order and rows.
C3_FormatIdempotent ==
    (FormatReturned /\ depth >= 1) => out = Return(df)

(***************************************************************************)
(* Claims about the air three transform.                                   *)
(***************************************************************************)
Returned(f) == fn = f /\ pc = "return"

\* C4: a step that names a column absent from the frame it is given raises
\* and returns no frame: format (year, value or disaggregation column),
\* select_columns (any of its five columns), filter_rows (Country, measure).
C4_AbsentColumnRaises ==
    /\ (Returned("format") /\ ~(NamedColumns(args) \subseteq Range(df.columns)))
          => ~out.ok /\ out.err = "KeyError" /\ out.columns = <<>> /\ out.data = <<>>
    /\ (Returned("select_columns")
          /\ ~({"Area code", "Country", "year", "measure", "ugm-3"} \subseteq Range(df.columns)))
          => ~out.ok /\ out.err = "KeyError" /\ out.columns = <<>> /\ out.data = <<>>
    /\ (Returned("filter_rows") /\ ~({"Country", "measure"} \subseteq Range(df.columns)))
          => ~out.ok /\ out.err = "UndefinedVariableError"
                /\ out.columns = <<>> /\ out.data = <<>>

C4_Witness ==
    /\ Returned("format")
    /\ args.disaggregation_column \in FormatNames \ Range(df.columns)
    /\ {args.year_column, args.value_column} \subseteq Range(df.columns)
    /\ args.year_column # args.value_column
    /\ ~out.ok

\* The positions of the value columns of a frame given to unpivot, ascending.
ValueColumns(t) ==
    SelectSeq(Indices(Len(t.columns)),
              LAMBDA i : t.columns[i] # "Area code" /\ t.columns[i] # "Country")

\* The long row unpivot owes to input row r and the value column at position i.
LongRow(t, r, i) ==
    <<t.data[r][PositionOf(t, "Area code")], t.data[r][PositionOf(t, "Country")],
      t.columns[i], t.data[r][i]>>

Count(S) == Cardinality(S)

\* C5: unpivot returns one row for every pair (input row, value column),
\* R * N rows in all, each with that row's identifier cells, the column's
\* label and the cell; nothing is aggregated, duplicated or dropped.
C5_UnpivotOneRowPerCell ==
    (Returned("unpivot") /\ out.ok)
        => LET vp == ValueColumns(df)
               pairs == (1..Len(df.data)) \X Range(vp)
           IN /\ Len(out.data) = Len(df.data) * Len(vp)
              /\ \A p \in pairs :
                    Count({n \in 1..Len(out.data) : out.data[n] = LongRow(df, p[1], p[2])})
                        = Count({q \in pairs : LongRow(df, q[1], q[2]) = LongRow(df, p[1], p[2])})
              /\ \A n \in 1..Len(out.data) :
                    \E p \in pairs : out.data[n] = LongRow(df, p[1], p[2])

C5_Witness ==
    /\ Returned("unpivot") /\ out.ok /\ depth = 0
    /\ Len(df.data) = 2 /\ Len(ValueColumns(df)) = 2
    /\ df.data[1][PositionOf(df, "Country")] = df.data[2][PositionOf(df, "Country")]

\* C6: unpivot returns the columns identifiers, variable, value, and its rows
\* grouped by value column: the groups in the input's column order and each
\* group holding every input row in the input's row order.
C6_UnpivotOrder ==
    (Returned("unpivot") /\ out.ok)
        => LET vp == ValueColumns(df)
               label(n) == out.data[n][3]
               where(l) == CHOOSE k \in 1..Len(vp) : df.columns[vp[k]] = l
           IN /\ out.columns = <<"Area code", "Country", "variable", "ugm-3">>
              /\ \A n, m \in 1..Len(out.data) :
                    n < m => where(label(n)) <= where(label(m))
              /\ \A k \in 1..Len(vp) :
                    SelectSeq(out.data, LAMBDA row : row[3] = df.columns[vp[k]])
                        = [r \in 1..Len(df.data) |-> LongRow(df, r, vp[k])]

C6_Witness ==
    /\ Returned("unpivot") /\ out.ok /\ depth = 0
    /\ df.columns[1] = "2012 (total)" /\ df.columns[2] = "2011 (total)"
    /\ Len(df.data) = 2 /\ Len(out.data) = 4

\* Whether a is b with some rows left out, the rest in b's order.
RECURSIVE IsSubsequence(_, _)
IsSubsequence(a, b) ==
    IF a = <<>> THEN TRUE
    ELSE IF b = <<>> THEN FALSE
    ELSE IF Head(a) = Head(b) THEN IsSubsequence(Tail(a), Tail(b))
    ELSE IsSubsequence(a, Tail(b))

IsEnglandTotal(t, row) ==
    row[PositionOf(t, "Country")] = "England" /\ row[PositionOf(t, "measure")] = "total"

\* C7: filter_rows keeps exactly the rows with Country == 'England' and
\* measure == 'total', in their input order, and changes no cell or column.
C7_FilterKeepsExactlyMatching ==
    (Returned("filter_rows") /\ out.ok)
        => /\ out.columns = df.columns
           /\ \A n \in 1..Len(out.data) : IsEnglandTotal(df, out.data[n])
           /\ Len(out.data) = Count({r \in 1..Len(df.data) : IsEnglandTotal(df, df.data[r])})
           /\ IsSubsequence(out.data, df.data)

C7_Witness ==
    /\ Returned("filter_rows") /\ out.ok
    /\ Len(out.data) >= 1 /\ Len(out.data) < Len(df.data)
    /\ \E r \in 1..Len(df.data) :
          df.data[r][PositionOf(df, "Country")] = "England"
              /\ df.data[r][PositionOf(df, "measure")] # "total"
    /\ \E r \in 1..Len(df.data) :
          df.data[r][PositionOf(df, "Country")] # "England"
              /\ df.data[r][PositionOf(df, "measure")] = "total"

\* A frame unpivot accepts: both identifiers present, no column ugm-3 yet.
IsWide(t) ==
    /\ {"Area code", "Country"} \subseteq Range(t.columns)
    /\ "ugm-3" \notin Range(t.columns)

\* The pairs (row, value column position) of a wide frame with Country
\* England and a label whose bracketed measure is total.
EnglandTotalCells(t) ==
    {p \in (1..Len(t.data)) \X Range(ValueColumns(t)) :
        /\ t.data[p[1]][PositionOf(t, "Country")] = "England"
        /\ ExtractMeasure(t.columns[p[2]]) = "total"}

\* C8: transform_air_three returns the columns Area code, Country, year,
\* measure, ugm-3 in that order, every row with Country England and measure
\* total, and one row for each England row and total value column of its
\* input: the result of unpivot, split, select and filter in that order.
C8_TransformAirThree ==
    (Returned("transform_air_three") /\ IsWide(df))
        => /\ out.ok
           /\ out.columns = <<"Area code", "Country", "year", "measure", "ugm-3">>
           /\ \A n \in 1..Len(out.data) :
                 out.data[n][2] = "England" /\ out.data[n][4] = "total"
           /\ Len(out.data) = Count(EnglandTotalCells(df))
           /\ \A p \in EnglandTotalCells(df) :
                 \E n \in 1..Len(out.data) :
                    out.data[n] = <<df.data[p[1]][PositionOf(df, "Area code")], "England",
                                    ExtractYear(df.columns[p[2]]), "total",
                                    df.data[p[1]][p[2]]>>

C8_Witness ==
    /\ Returned("transform_air_three") /\ IsWide(df)
    /\ Len(out.data) = 2 /\ Len(df.data) = 2 /\ Len(ValueColumns(df)) = 2
    /\ Count(EnglandTotalCells(df)) = 2
    /\ \E i \in Range(ValueColumns(df)) : ExtractMeasure(df.columns[i]) = "anthropogenic"

\* The steps of transform_air_three with filter_rows moved before unpivot.
filter_before_unpivot(t) ==
    LET f == filter_rows(t)
    IN IF f.ok
       THEN {PipeSelectColumns(PipeSplitVariableColumn(u)) : u \in unpivot(Frame(f))}
       ELSE {f}

\* C9: on a frame whose measure column exists only once unpivoted, filtering
\* before unpivoting gives a different result than unpivoting before
\* filtering.
C9_OrderSensitive ==
    (Returned("transform_air_three") /\ IsWide(df) /\ "measure" \notin Range(df.columns))
        => out \notin filter_before_unpivot(df)

C9_Witness ==
    /\ Returned("transform_air_three") /\ IsWide(df) /\ out.ok
    /\ "measure" \notin Range(df.columns)
    /\ Len(out.data) = Len(df.data) * Len(ValueColumns(df))
    /\ \A r \in filter_before_unpivot(df) : ~r.ok

(***************************************************************************)
(* Claims about validate.                                                  *)
(***************************************************************************)
\* C10: given a frame that violates two or more constraints of the schema
\* for (theme, indicator, stage), validate's failure lists every violated
\* constraint, not only the first.
C10_ValidationComplete ==
    (/\ Returned("validate")
     /\ HasSchema(args.theme, args.indicator, args.stage)
     /\ Len(SchemaFailures(SchemaDict[args.theme][args.indicator][args.stage], df)) >= 2)
        => /\ ~out.ok
           /\ Range(out.failures)
                 = Range(SchemaFailures(SchemaDict[args.theme][args.indicator][args.stage], df))

(***************************************************************************)
(* C11.  validate returns, whenever the frame satisfies the schema of      *)
(* (theme, indicator, stage), the frame it was given: the same columns in  *)
(* the same order and the same rows with the same values.  In every case   *)
(* the frame passed in is left as it was, and a failing call returns no    *)
(* frame.                                                                  *)
(***************************************************************************)
SatisfiesSchema ==
    /\ HasSchema(args.theme, args.indicator, args.stage)
    /\ SchemaFailures(SchemaDict[args.theme][args.indicator][args.stage], df) = <<>>

C11_ValidateReturnsInput ==
    [][(pc = "call" /\ fn = "validate") =>
          /\ df' = df
          /\ SatisfiesSchema =>
                /\ out'.ok
                /\ out'.columns = df.columns
                /\ out'.data = df.data
          /\ ~SatisfiesSchema =>
                /\ ~out'.ok
                /\ out'.columns = <<>>
                /\ out'.data = <<>>]_vars

C11_Witness ==
    /\ Returned("validate")
    /\ out.ok
    /\ Len(df.columns) = 2
    /\ Len(df.data) = 2
    /\ df.data[1] # df.data[2]
    /\ Frame(out) = df

(***************************************************************************)
(* C12.  Every pipeline component is a pure function of the frame it is    *)
(* given: unpivot, split_variable_column, select_columns, filter_rows,     *)
(* format and _column_name_to_string each leave the frame object passed to *)
(* them as it was, and a second call on the same input gives an equal      *)
(* result.                                                                 *)
(***************************************************************************)
PipelineComponents ==
    {"unpivot", "split_variable_column", "select_columns", "filter_rows",
     "format", "_column_name_to_string"}

\* What a call of component f on frame t, with the arguments at hand, can give.
Results(f, t) ==
    CASE f = "unpivot" -> unpivot(t)
      [] f = "split_variable_column" -> {split_variable_column(t)}
      [] f = "select_columns" -> {select_columns(t)}
      [] f = "filter_rows" -> {filter_rows(t)}
      [] f = "format" -> {format(t, args.year_column, args.value_column,
                                 args.disaggregation_column,
                                 args.disaggregation_column_new)}
      [] f = "_column_name_to_string" -> {_column_name_to_string(t)}

C12_ComponentsPure ==
    /\ [][(pc = "call" /\ fn \in PipelineComponents) => df' = df]_vars
    /\ [](\A f \in PipelineComponents : Returned(f) => out \in Results(f, df))

(***************************************************************************)
(* C13.  extract with a theme the dataset dictionary lacks, or with a      *)
(* theme it has and an indicator that theme lacks, ends at once in a       *)
(* KeyError naming the missing key: the theme in the first case, the       *)
(* indicator in the second.  The theme is looked up before the indicator,  *)
(* the lookup is made once, and no workbook is read.                       *)
(***************************************************************************)
ThemeMissing == args.theme \notin DOMAIN DatasetDict

IndicatorMissing ==
    /\ args.theme \in DOMAIN DatasetDict
    /\ args.indicator \notin DOMAIN DatasetDict[args.theme]

C13_MissingKeyRaises ==
    Returned("extract") =>
        /\ ThemeMissing =>
              /\ out.err = "KeyError"
              /\ out.value = <<args.theme>>
              /\ Len(Calls("print")) = 1
              /\ Calls("print")[1].what = <<"Theme", args.theme>>
              /\ Len(Calls("open")) = 1
              /\ Calls("read_excel") = <<>>
        /\ IndicatorMissing =>
              /\ out.err = "KeyError"
              /\ out.value = <<args.indicator>>
              /\ Len(Calls("print")) = 1
              /\ Calls("print")[1].what = <<"Indicator", args.indicator>>
              /\ Len(Calls("open")) = 1
              /\ Calls("read_excel") = <<>>

C13_Witness ==
    /\ Returned("extract")
    /\ ThemeMissing
    /\ \A t \in DOMAIN DatasetDict : args.indicator \notin DOMAIN DatasetDict[t]
    /\ out.value = <<args.theme>>
    /\ Calls("read_excel") = <<>>

Writes == SelectSeq(io, LAMBDA e : e.call \in {"put_object", "upload_file"})

UploadReturned(type) == Returned("upload_raw") /\ args.type = type

ClaimedFilename ==
    IF args.type = "str" /\ ~TruthyStr(args.filename)
    THEN basename(args.df_or_path)
    ELSE args.filename

ClaimedKey ==
    IF TruthyStr(args.key_name)
    THEN args.key_name
    ELSE Chars["2022"] \o Chars["_update/raw/"] \o Chars["A1"] \o <<"/">> \o Str(ClaimedFilename)

C16_KeyAndReturn ==
    (Returned("upload_raw") /\ out.ok) =>
        /\ Len(Writes) = 1
        /\ Writes[1].what = ClaimedKey
        /\ out.value = Chars["s3://"] \o args.bucket_name \o <<"/">> \o ClaimedKey

(***************************************************************************)
(* C17.  upload_raw on a str fetches it over HTTP exactly when it starts   *)
(* with 'http://' or 'https://', and otherwise uploads it as a local file. *)
(* For a URL the fetch comes before any write to the bucket, a response    *)
(* with an HTTP error status raises with no object put, and the fetch is   *)
(* made at most once.                                                      *)
(***************************************************************************)
UrlsGiven == {Chars["https://u/d.x"], Chars["http://u/d.x"], Chars["https://u/"]}

ErrorStatus ==
    /\ Calls("raise_for_status") # <<>>
    /\ Calls("raise_for_status")[1].what[1] >= 400

C17_FetchOnlyUrls ==
    UploadReturned("str") =>
        /\ Calls("get") # <<>> <=> args.df_or_path \in UrlsGiven
        /\ args.df_or_path \notin UrlsGiven =>
              /\ Len(io) = 1
              /\ io[1].call = "upload_file"
              /\ io[1].with = args.df_or_path
        /\ args.df_or_path \in UrlsGiven =>
              /\ Len(Calls("get")) = 1
              /\ io[1].call = "get"
              /\ io[1].what = args.df_or_path
              /\ Calls("upload_file") = <<>>
              /\ Writes # <<>> => Len(Calls("raise_for_status")) = 1
              /\ ErrorStatus => (~out.ok /\ Writes = <<>>)

C17_Witness ==
    /\ UploadReturned("str")
    /\ args.df_or_path = Chars["https://u/d.x"]
    /\ ErrorStatus
    /\ out.err = "HTTPError"
    /\ Len(io) = 2

==============================================================================
